---- MODULE Spec2Model ----
(***************************************************************************)
(* The Label class of src/label.py as a state machine.  A state is the    *)
(* set of fields of one Label object, the last public method called on it *)
(* with the exception it raised, and the local variables make() held when *)
(* it last ran past its empty-list guard.                                  *)
(*                                                                         *)
(* Lengths in mm are integers.  Scale factors are Python floats in the     *)
(* source; here they are exact fractions <<num, den>> with den > 0, and    *)
(* int() is truncation toward zero of the exact quotient.  Every image     *)
(* height and usable height below is a power of two, so the floats of the  *)
(* source hold the same values exactly.                                    *)
(*                                                                         *)
(* An image is a record [width, height, pix]: its size in pixels and one   *)
(* name standing for its pixel content.  The raster self._img is the       *)
(* function from the painted cells <<x, y>> to the pix painted there last; *)
(* a cell outside its domain still has the white of Image.new.             *)
(***************************************************************************)
EXTENDS Integers, Sequences, FiniteSets, TLC

VARIABLES
    is_vertical,  \* self._is_vertical
    dpi,          \* self._dpi
    px,           \* self._px: <<width, height>> of the raster
    img,          \* self._img: painted cells of the raster
    images,       \* self._images
    dot_size,     \* self._dot_size
    is_made,      \* self._is_made
    box,          \* self._box: <<<<left, top>>, <<right, bottom>>>>
    spacing,      \* self._spacing
    mm,           \* the lengths in mm the caller passed: canonical size, margins
    op,           \* the public method called last ("init" after construction)
    err,          \* the exception that call raised, "none" if it returned
    mk,           \* make()'s locals when it last ran past line 52
    makes,        \* number of make() calls so far
    done          \* number of make() calls that returned without raising

vars == <<is_vertical, dpi, px, img, images, dot_size, is_made, box, spacing,
          mm, op, err, mk, makes, done>>

label == <<is_vertical, dpi, px, img, images, dot_size, is_made, box, spacing>>

(***************************************************************************)
(* Bounds of the model.                                                    *)
(***************************************************************************)
MaxImages == 2
MaxMakes == 2
MaxMargin == 3

\* Label sizes <<width_mm, height_mm>>, resolutions, spacings, dot sizes and
\* margins of the layout specification: at 25 dpi one mm is one pixel up to
\* 31 mm.  The margins leave a usable width of 12, 10, 4 and -1 pixels.
Sizes == {<<12, 4>>, <<4, 12>>}
DPIs == {25}
SpacingsMM == {0, 1}
DotSizesMM == {1}
Margin(t, b, l, r) == [top |-> t, bottom |-> b, left |-> l, right |-> r]
MarginsMM == {Margin(0, 0, 0, 0), Margin(1, 1, 1, 1), Margin(0, 0, 4, 4),
              Margin(0, 0, 7, 6)}

\* The images a caller may add.
Catalogue == {[width |-> 8, height |-> 4, pix |-> "W"],
              [width |-> 32, height |-> 8, pix |-> "C"],
              [width |-> 2, height |-> 2, pix |-> "S"]}

\* Sizes, resolutions and margins of the unit-conversion specification.
SizesPx == {<<65, 25>>, <<60, 25>>, <<25, 65>>, <<40, 20>>}
DPIsPx == {150, 300, 600}
MarginsPx == {Margin(t, b, l, r) : t \in 1..MaxMargin, b \in 1..MaxMargin,
                                   l \in 1..MaxMargin, r \in 1..MaxMargin}

(***************************************************************************)
(* Arithmetic.                                                             *)
(***************************************************************************)
\* int(n / d) for d > 0: Python's int() truncates toward zero.
Trunc(n, d) == IF n >= 0 THEN n \div d ELSE -((-n) \div d)

\* The conversion without round(): int(dpi * mm / 25.4).
to_px_truncating(d, len) == (10 * d * len) \div 254

\* int(round(dpi * mm / 25.4)) for an integer mm >= 0.  dpi * mm / 25.4 is
\* 5 * dpi * mm / 127, never half an odd integer, so round() is
\* floor(x + 1/2) and ties do not arise.
to_px(d, len) == (10 * d * len + 127) \div 254

\* scaled / actual as the fraction <<num, den>>.
scale_factor(actual, scaled) == <<scaled, actual>>

One == <<1, 1>>

(***************************************************************************)
(* Helpers of make().  A list of make() holds records                      *)
(* [width, height, pix, src]: src is the element's identity, its position  *)
(* in self._images, and 0 for the image _dotdotdot_img() builds.           *)
(***************************************************************************)
\* The list self._images with each element's identity.
Tagged(imgs) ==
    [i \in 1..Len(imgs) |->
        [width |-> imgs[i].width, height |-> imgs[i].height,
         pix |-> imgs[i].pix, src |-> i]]

\* int(x.width * scale_factors[i]) and int(x.height * scale_factors[i]).
ScaledW(x, sf) == Trunc(x.width * sf[1], sf[2])
ScaledH(x, sf) == Trunc(x.height * sf[1], sf[2])

\* _fit_count from image i (1-based) on; width is the fraction wn / wd left.
\* The subtraction uses the unrounded product img.width * scale_factors[i].
RECURSIVE FitFrom(_, _, _, _, _, _)
FitFrom(imgs, scale_factors, sp, i, wn, wd) ==
    IF i > Len(imgs) THEN Len(imgs)
    ELSE LET sf == scale_factors[i]
             n == wn * sf[2] - imgs[i].width * sf[1] * wd
             d == wd * sf[2]
         IN IF n <= 0 THEN i - 1
            ELSE FitFrom(imgs, scale_factors, sp, i + 1, n - sp * d, d)

fit_count(imgs, scale_factors, sp, width) ==
    FitFrom(imgs, scale_factors, sp, 1, width, 1)

RECURSIVE SumScaled(_, _, _)
SumScaled(list, scale_factors, i) ==
    IF i > Len(list) THEN 0
    ELSE ScaledW(list[i], scale_factors[i]) + SumScaled(list, scale_factors, i + 1)

total_scaled_width(list, scale_factors, sp) ==
    SumScaled(list, scale_factors, 1) + sp * (Len(list) - 1)

\* _dotdotdot_img: the panel's size; Image.new refuses a negative height.
dotdotdot_img(vertical, dots, bx) ==
    LET height == bx[2][2] - bx[1][2]
        width == IF vertical THEN dots + 1 ELSE dots * 4 + 1
    IN IF height < 0
       THEN [err |-> "ValueError"]
       ELSE [err |-> "none",
             image |-> [width |-> width, height |-> height, pix |-> "dots", src |-> 0]]

\* list.pop(i) with Python's index i (negative counts from the end); the
\* caller has checked that the index is in range.
Pop(list, i) ==
    LET k == IF i < 0 THEN i + Len(list) + 1 ELSE i + 1
    IN [j \in 1..(Len(list) - 1) |-> IF j < k THEN list[j] ELSE list[j + 1]]

\* list[i] = v with Python's index i.
SetItem(list, i, v) ==
    LET k == IF i < 0 THEN i + Len(list) + 1 ELSE i + 1
    IN [list EXCEPT ![k] = v]

\* The loop of lines 64-67, n iterations done so far.  pop() of an index
\* outside the list raises IndexError.
RECURSIVE WhileTooWide(_, _, _, _, _, _)
WhileTooWide(list, scale_factors, total, max_width, sp, n) ==
    IF total > max_width
    THEN IF Len(list) = 0
         THEN [err |-> "IndexError", images |-> list, scale_factors |-> scale_factors,
               total |-> total, iters |-> n]
         ELSE LET popped == Pop(list, Len(list) - 2)
                  sfs == SetItem(scale_factors, Len(popped) - 1, One)
              IN WhileTooWide(popped, sfs, total_scaled_width(popped, sfs, sp),
                              max_width, sp, n + 1)
    ELSE [err |-> "none", images |-> list, scale_factors |-> scale_factors,
          total |-> total, iters |-> n]

\* Lines 58-67: the list to place, its scale factors and total_scaled_width.
Overflow(imgs, scale_factors, num_full_imgs, vertical, dots, bx, sp, max_width) ==
    LET first == SubSeq(Tagged(imgs), 1, num_full_imgs)
    IN IF num_full_imgs < Len(imgs)
       THEN LET d == dotdotdot_img(vertical, dots, bx)
            IN IF d.err # "none"
               THEN [err |-> d.err, images |-> first, scale_factors |-> scale_factors,
                     total |-> total_scaled_width(first, scale_factors, sp), iters |-> 0]
               ELSE LET list == Append(first, d.image)
                        total == total_scaled_width(list, scale_factors, sp)
                        sfs == [scale_factors EXCEPT ![num_full_imgs + 1] = One]
                    IN WhileTooWide(list, sfs, total, max_width, sp, 0)
       ELSE [err |-> "none", images |-> first, scale_factors |-> scale_factors,
             total |-> total_scaled_width(first, scale_factors, sp), iters |-> 0]

\* Image.paste of a w x h copy at <<x, y>>: the cells inside the raster.
Paste(raster, size, x, y, w, h, pix) ==
    LET region == {c \in (x..(x + w - 1)) \X (y..(y + h - 1)) :
                      /\ c[1] >= 0 /\ c[1] < size[1]
                      /\ c[2] >= 0 /\ c[2] < size[2]}
    IN [c \in (DOMAIN raster) \cup region |->
           IF c \in region THEN pix ELSE raster[c]]

\* Lines 70-73 from element i on.  Image.resize returns a copy when the new
\* size is the image's own and refuses a width or height below 1; what was
\* pasted before the refusal stays in the raster.
RECURSIVE PasteFrom(_, _, _, _, _, _, _, _, _)
PasteFrom(list, scale_factors, sp, size, i, x, y, raster, pasted) ==
    IF i > Len(list) THEN [err |-> "none", img |-> raster, placed |-> pasted]
    ELSE LET w == ScaledW(list[i], scale_factors[i])
             h == ScaledH(list[i], scale_factors[i])
         IN IF <<w, h>> # <<list[i].width, list[i].height>> /\ (w < 1 \/ h < 1)
            THEN [err |-> "ValueError", img |-> raster, placed |-> pasted]
            ELSE PasteFrom(list, scale_factors, sp, size, i + 1, x + w + sp, y,
                           Paste(raster, size, x, y, w, h, list[i].pix),
                           Append(pasted, [src |-> list[i].src, x |-> x, y |-> y,
                                         width |-> w, height |-> h]))

(***************************************************************************)
(* The constructor and the public methods.                                 *)
(***************************************************************************)
\* The box set_margins computes from the raster size and the margins.
MarginBox(d, size, margins_mm) ==
    <<<<to_px(d, margins_mm.left), to_px(d, margins_mm.top)>>,
      <<size[1] - to_px(d, margins_mm.right), size[2] - to_px(d, margins_mm.bottom)>>>>

\* max_width and max_height as make() reads them off the box.
UsableWidth(bx) == bx[2][1] - bx[1][1]
UsableHeight(bx) == bx[2][2] - bx[1][2]

NoMake == [n |-> 0, max_width |-> 0, max_height |-> 0, fit |-> 0, total |-> 0,
           iters |-> 0, placed |-> <<>>]

\* Label(width_mm, height_mm, margins_mm, spacing_mm, dpi, dot_size_mm)
Construct(width_mm, height_mm, margins_mm, spacing_mm, d, dot_size_mm) ==
    LET vertical == height_mm > width_mm
        w == IF vertical THEN height_mm ELSE width_mm
        h == IF vertical THEN width_mm ELSE height_mm
        size == <<to_px(d, w), to_px(d, h)>>
    IN /\ is_vertical = vertical
       /\ dpi = d
       /\ px = size
       /\ img = <<>>
       /\ images = <<>>
       /\ dot_size = to_px(d, dot_size_mm)
       /\ is_made = FALSE
       /\ box = MarginBox(d, size, margins_mm)
       /\ spacing = to_px(d, spacing_mm)
       /\ mm = [width |-> w, height |-> h, margins |-> margins_mm]
       /\ op = "init"
       /\ err = "none"
       /\ mk = NoMake
       /\ makes = 0
       /\ done = 0

Init ==
    \E size \in Sizes, margins_mm \in MarginsMM, spacing_mm \in SpacingsMM,
       d \in DPIs, dot_size_mm \in DotSizesMM :
        Construct(size[1], size[2], margins_mm, spacing_mm, d, dot_size_mm)

\* The image add_image appends: a vertical label turns it by 90 degrees.
Converted(vertical, im) ==
    IF vertical
    THEN [width |-> im.height, height |-> im.width, pix |-> im.pix]
    ELSE im

\* add_image pasting the image into the raster as it is added.
add_image_pasting(im) ==
    /\ Len(images) < MaxImages
    /\ images' = Append(images, Converted(is_vertical, im))
    /\ img' = [c \in (DOMAIN img) \cup {<<0, 0>>} |-> im.pix]
    /\ op' = "add_image"
    /\ err' = "none"
    /\ UNCHANGED <<is_vertical, dpi, px, dot_size, is_made, box, spacing,
                   mm, mk, makes, done>>

add_image(im) ==
    /\ Len(images) < MaxImages
    /\ images' = Append(images, Converted(is_vertical, im))
    /\ op' = "add_image"
    /\ err' = "none"
    /\ UNCHANGED <<is_vertical, dpi, px, img, dot_size, is_made, box, spacing,
                   mm, mk, makes, done>>

\* The test of line 51 left out.
NoImagesUnchecked(imgs) == FALSE

\* The test of line 51.
NoImages(imgs) == Len(imgs) = 0

\* The value line 74 gives self._is_made.
MadeAfter(made, raised) == IF raised = "none" THEN TRUE ELSE made

make ==
    /\ makes < MaxMakes
    /\ makes' = makes + 1
    /\ op' = "make"
    /\ IF NoImages(images)
       THEN /\ err' = "NoImagesError"
            /\ UNCHANGED <<label, mm, mk, done>>
       ELSE LET max_width == UsableWidth(box)
                max_height == UsableHeight(box)
                scale_factors == [i \in 1..Len(images) |->
                                     scale_factor(images[i].height, max_height)]
                num_full_imgs == fit_count(images, scale_factors, spacing, max_width)
                lay == Overflow(images, scale_factors, num_full_imgs, is_vertical,
                                dot_size, box, spacing, max_width)
                \* int(max_width / 2 - total_scaled_width / 2) + self._box[0][0]
                x == Trunc(max_width - lay.total, 2) + box[1][1]
                res == IF lay.err = "none"
                       THEN PasteFrom(lay.images, lay.scale_factors, spacing, px,
                                      1, x, box[1][2], img, <<>>)
                       ELSE [err |-> lay.err, img |-> img, placed |-> <<>>]
            IN /\ err' = res.err
               /\ img' = res.img
               /\ is_made' = MadeAfter(is_made, res.err)
               /\ done' = IF res.err = "none" THEN done + 1 ELSE done
               /\ mk' = [n |-> Len(images), max_width |-> max_width,
                         max_height |-> max_height, fit |-> num_full_imgs,
                         total |-> lay.total, iters |-> lay.iters,
                         placed |-> res.placed]
               /\ UNCHANGED <<is_vertical, dpi, px, images, dot_size, box,
                              spacing, mm>>

\* The guard with its test inverted.
guard_inverted(made) == IF made THEN "NotAvailableError" ELSE "none"

\* _guard_not_made: the exception it raises.
guard_not_made(made) == IF ~made THEN "NotAvailableError" ELSE "none"

show ==
    /\ op' = "show"
    /\ err' = guard_not_made(is_made)
    /\ UNCHANGED <<label, mm, mk, makes, done>>

get_img ==
    /\ op' = "get_img"
    /\ err' = guard_not_made(is_made)
    /\ UNCHANGED <<label, mm, mk, makes, done>>

set_spacing(spacing_mm) ==
    /\ spacing' = to_px(dpi, spacing_mm)
    /\ op' = "set_spacing"
    /\ err' = "none"
    /\ UNCHANGED <<is_vertical, dpi, px, img, images, dot_size, is_made, box,
                   mm, mk, makes, done>>

set_margins(margins_mm) ==
    /\ box' = MarginBox(dpi, px, margins_mm)
    /\ mm' = [mm EXCEPT !.margins = margins_mm]
    /\ op' = "set_margins"
    /\ err' = "none"
    /\ UNCHANGED <<is_vertical, dpi, px, img, images, dot_size, is_made,
                   spacing, mk, makes, done>>

Next ==
    \/ \E im \in Catalogue : add_image(im)
    \/ make
    \/ show
    \/ get_img
    \/ \E spacing_mm \in SpacingsMM : set_spacing(spacing_mm)
    \/ \E margins_mm \in MarginsMM : set_margins(margins_mm)

Spec == Init /\ [][Next]_vars

\* The unit-conversion specification: labels of printable sizes at 150, 300
\* and 600 dpi, and every change of margins.
InitPx ==
    \E size \in SizesPx, margins_mm \in MarginsPx, d \in DPIsPx :
        Construct(size[1], size[2], margins_mm, 0, d, 2)

NextPx == \E margins_mm \in MarginsPx : set_margins(margins_mm)

SpecPx == InitPx /\ [][NextPx]_vars

(***************************************************************************)
(* What the claims speak of.                                               *)
(***************************************************************************)
\* The last call was a make() that ran past its empty-list guard.
MakeRan == op = "make" /\ err # "NoImagesError"

\* The last call was a make() that returned.
MakeReturned == op = "make" /\ err = "none"

\* The content box make() worked in had a positive width and height.
PositiveBox == mk.max_width > 0 /\ mk.max_height > 0

RECURSIVE SumWidth(_, _)
SumWidth(placed, i) ==
    IF i > Len(placed) THEN 0 ELSE placed[i].width + SumWidth(placed, i + 1)

\* Rendered widths of the placed elements plus the spacing between them.
PlacedWidth(placed, sp) == SumWidth(placed, 1) + sp * (Len(placed) - 1)

\* The sum of width * H / height over imgs, unrounded, as a fraction.
RECURSIVE ExactSum(_, _, _)
ExactSum(imgs, H, i) ==
    IF i > Len(imgs) THEN <<0, 1>>
    ELSE LET rest == ExactSum(imgs, H, i + 1)
         IN <<rest[1] * imgs[i].height + imgs[i].width * H * rest[2],
              rest[2] * imgs[i].height>>

\* Unrounded scaled widths plus interior spacing compared with the width W.
AllWithin(imgs, H, sp, W) ==
    LET s == ExactSum(imgs, H, 1)
    IN s[1] + sp * (Len(imgs) - 1) * s[2] <= W * s[2]

AllBelow(imgs, H, sp, W) ==
    LET s == ExactSum(imgs, H, 1)
    IN s[1] + sp * (Len(imgs) - 1) * s[2] < W * s[2]

\* round(resolution * x / 25.4): the integer nearest to the exact quotient.
ToDeviceUnits(resolution, x) ==
    LET lo == (10 * resolution * x) \div 254
    IN CHOOSE n \in lo..(lo + 1) :
           /\ 254 * n - 10 * resolution * x <= 127
           /\ 10 * resolution * x - 254 * n <= 127

Abs(n) == IF n < 0 THEN -n ELSE n

(***************************************************************************)
(* C1: after every make() that returns, the rendered widths of the placed  *)
(* elements plus spacing * (number placed - 1) do not exceed the usable    *)
(* width.  Stated for a content box of positive size.                      *)
(***************************************************************************)
C1_PlacedWithinUsableWidth ==
    (MakeReturned /\ PositiveBox) =>
        PlacedWidth(mk.placed, spacing) <= mk.max_width

(***************************************************************************)
(* C2: when not all images fit, the placement holds exactly one overflow   *)
(* indicator, as its last element, after the first k added images in the   *)
(* order they were added, k <= fit count.                                  *)
(***************************************************************************)
C2_OneIndicatorLast ==
    (MakeReturned /\ PositiveBox /\ mk.fit < mk.n) =>
        /\ Len(mk.placed) >= 1
        /\ mk.placed[Len(mk.placed)].src = 0
        /\ \A i \in 1..(Len(mk.placed) - 1) : mk.placed[i].src = i
        /\ Len(mk.placed) - 1 <= mk.fit

(***************************************************************************)
(* C3: if the scaled widths of all added images plus spacing * (N - 1) are *)
(* at most the usable width, the fit scan returns N and make() places no   *)
(* overflow indicator.                                                     *)
(***************************************************************************)
C3_AllFitWhenWithin ==
    (MakeRan /\ PositiveBox
       /\ AllWithin(images, mk.max_height, spacing, mk.max_width)) =>
        /\ mk.fit = mk.n
        /\ \A i \in 1..Len(mk.placed) : mk.placed[i].src # 0

(***************************************************************************)
(* C4: get_img() and show() raise NotAvailableError exactly as long as no  *)
(* make() has returned; after one has, they raise nothing.                 *)
(***************************************************************************)
C4_NotAvailableUntilMade ==
    op \in {"get_img", "show"} =>
        /\ (done = 0 => err = "NotAvailableError")
        /\ (done > 0 => err = "none")

C4_Witness ==
    /\ op \in {"get_img", "show"}
    /\ err = "NotAvailableError"
    /\ makes > 0 /\ mk.n > 0 /\ done = 0

(***************************************************************************)
(* C5: make() with no image added raises NoImagesError and changes no      *)
(* field of the label: the raster is all background, the list of images is *)
(* empty and the label is not made.                                        *)
(***************************************************************************)
C5_EmptyMakeChangesNothing ==
    [][(op' = "make" /\ makes' = makes + 1 /\ Len(images) = 0) =>
          /\ err' = "NoImagesError"
          /\ label' = label
          /\ img' = <<>> /\ images' = <<>> /\ is_made' = FALSE]_vars

C5_Witness == op = "make" /\ err = "NoImagesError" /\ Len(images) = 0

(***************************************************************************)
(* C6: the constructor and set_margins fail with a configuration error     *)
(* when the usable width or height is <= 0, so make() never works in a     *)
(* content box of non-positive size.                                       *)
(***************************************************************************)
C6_NonPositiveBoxRejected ==
    /\ (op \in {"init", "set_margins"} /\ err = "none") =>
           (UsableWidth(box) > 0 /\ UsableHeight(box) > 0)
    /\ MakeRan => PositiveBox

(***************************************************************************)
(* C7 as stated: the usable width is toDeviceUnits(width - left - right)   *)
(* and the usable height toDeviceUnits(height - top - bottom).             *)
(***************************************************************************)
C7_UsableIsConvertedDifference ==
    /\ UsableWidth(box) =
           ToDeviceUnits(dpi, mm.width - mm.margins.left - mm.margins.right)
    /\ UsableHeight(box) =
           ToDeviceUnits(dpi, mm.height - mm.margins.top - mm.margins.bottom)

(***************************************************************************)
(* C7 amended: the usable width is toDeviceUnits(width) -                  *)
(* toDeviceUnits(left) - toDeviceUnits(right), each length converted on    *)
(* its own, which is within one device unit of                             *)
(* toDeviceUnits(width - left - right); likewise the height.  A 65 x 25 mm *)
(* label with top and bottom margins of 2 mm at 300 dpi has the usable     *)
(* height 247.                                                             *)
(***************************************************************************)
C7_UsableIsDifferenceOfConverted ==
    /\ UsableWidth(box) = ToDeviceUnits(dpi, mm.width)
           - ToDeviceUnits(dpi, mm.margins.left) - ToDeviceUnits(dpi, mm.margins.right)
    /\ UsableHeight(box) = ToDeviceUnits(dpi, mm.height)
           - ToDeviceUnits(dpi, mm.margins.top) - ToDeviceUnits(dpi, mm.margins.bottom)
    /\ Abs(UsableWidth(box) - ToDeviceUnits(dpi,
               mm.width - mm.margins.left - mm.margins.right)) <= 1
    /\ Abs(UsableHeight(box) - ToDeviceUnits(dpi,
               mm.height - mm.margins.top - mm.margins.bottom)) <= 1
    /\ (dpi = 300 /\ mm.height = 25 /\ mm.margins.top = 2 /\ mm.margins.bottom = 2)
           => UsableHeight(box) = 247

C7_Witness ==
    /\ op = "set_margins"
    /\ dpi = 300 /\ mm.width = 65 /\ mm.height = 25
    /\ mm.margins.top = 2 /\ mm.margins.bottom = 2
    /\ UsableHeight(box) = 247
    /\ ToDeviceUnits(dpi, 21) = 248

(***************************************************************************)
(* C8: the loop that drops images in make() ends without an error after at *)
(* most N - 1 iterations, N the number of added images.                    *)
(***************************************************************************)
C8_LoopWithinBound ==
    (MakeRan /\ PositiveBox) =>
        /\ err # "IndexError"
        /\ mk.iters <= mk.n - 1

(***************************************************************************)
(* C9 as stated: once the label is made, no operation changes the raster.  *)
(***************************************************************************)
C9_RasterFrozenOnceMade == [][is_made => img' = img]_vars

(***************************************************************************)
(* C9 amended: once the label is made, add_image, set_margins,             *)
(* set_spacing, get_img and show leave the raster as it is; only another   *)
(* make() writes it.                                                       *)
(***************************************************************************)
C9_RasterFrozenBetweenMakes ==
    [][(is_made /\ op' # "make") => img' = img]_vars

C9_Witness ==
    /\ is_made /\ img # <<>>
    /\ op = "add_image"

(***************************************************************************)
(* C10: with equal left and right margins and a placement narrower than    *)
(* the usable width, the first element is at contentBoxLeft +              *)
(* floor(W/2 - totalWidth/2), each next one at the previous x plus the     *)
(* previous rendered width plus the spacing, and the gaps left and right   *)
(* of the block differ by at most one device unit.                         *)
(***************************************************************************)
C10_Centred ==
    LET placed == mk.placed
        T == PlacedWidth(placed, spacing)
        W == mk.max_width
        left == placed[1].x - box[1][1]
        right == W - left - T
    IN (/\ MakeReturned /\ PositiveBox
        /\ mm.margins.left = mm.margins.right
        /\ Len(placed) >= 1
        /\ T < W) =>
           /\ placed[1].x = box[1][1] + ((W - T) \div 2)
           /\ \A i \in 2..Len(placed) :
                  placed[i].x = placed[i - 1].x + placed[i - 1].width + spacing
           /\ Abs(left - right) <= 1

====
